---------------------------- MODULE Spec2Model ----------------------------
(***************************************************************************)
(* StaticSite build.py: the build pipeline run by __main__ (top-level      *)
(* static copy, findpages, buildpages, gatherstatic, thumbnails, drawio,   *)
(* buildcss, sitemap) over a small file system, and the boxed-section      *)
(* Markdown block processor.                                               *)
(*                                                                         *)
(* A str is a sequence of tokens: a path component, a file name, or the    *)
(* separator "/".  A file-system path is the sequence of its components,   *)
(* counted from the working directory.                                     *)
(***************************************************************************)
EXTENDS Integers, Sequences, FiniteSets, TLC

VARIABLES
    fs,          \* the file system: [dirs: set of paths, files: path -> content]
    siteconfig,  \* the SiteConfig read from config.json
    converter,   \* exit status of the external drawio command
    pages,       \* the dict returned by findpages: sequence of [path, page]
    pc,          \* position of __main__
    exitcode,    \* exit status of the process; -1 while it runs
    run,         \* number of the current invocation of build.py
    prev,        \* sequence of [fs, exitcode], one per finished invocation
    doc,         \* Markdown source given to markdown.markdown: sequence of lines
    html         \* element tree produced for doc; <<>> before rendering

vars == <<fs, siteconfig, converter, pages, pc, exitcode, run, prev, doc, html>>

-----------------------------------------------------------------------------
(* Bounds                                                                  *)

MaxRuns == 2
MaxDocLen == 4

-----------------------------------------------------------------------------
(* str and path helpers                                                    *)

Last(s) == s[Len(s)]
Parent(p) == SubSeq(p, 1, Len(p) - 1)
IsPrefix(p, q) == Len(p) <= Len(q) /\ SubSeq(q, 1, Len(p)) = p

RECURSIVE SetToSeq(_)
SetToSeq(S) ==
    IF S = {} THEN <<>>
    ELSE LET x == CHOOSE y \in S : TRUE IN <<x>> \o SetToSeq(S \ {x})

\* str.replace(old, new): every non-overlapping occurrence, left to right
RECURSIVE Replace(_, _, _)
Replace(s, old, new) ==
    IF old = <<>> \/ Len(s) < Len(old) THEN s
    ELSE IF SubSeq(s, 1, Len(old)) = old
         THEN new \o Replace(SubSeq(s, Len(old) + 1, Len(s)), old, new)
         ELSE <<Head(s)>> \o Replace(Tail(s), old, new)

\* str.lstrip("/")
RECURSIVE lstrip(_)
lstrip(s) == IF s # <<>> /\ Head(s) = "/" THEN lstrip(Tail(s)) ELSE s

\* os.path.join(a, b)
Join(a, b) ==
    IF b # <<>> /\ Head(b) = "/" THEN b
    ELSE IF a = <<>> \/ Last(a) = "/" THEN a \o b
    ELSE a \o <<"/">> \o b

\* the file-system path a str names (repeated and trailing separators vanish)
Resolve(s) == SelectSeq(s, LAMBDA t : t # "/")

\* pathlib.Path(name).suffix and .stem over the file names of the model
Suffix(name) ==
    CASE name \in {"pic.png", "small.png", "photo.png", "diagram.png"} -> ".png"
      [] name \in {"index.md"} -> ".md"
      [] name \in {"diagram.drawio"} -> ".drawio"
      [] name \in {"note.txt", "robots.txt"} -> ".txt"
      [] name \in {"page.json"} -> ".json"
      [] name \in {"index.html"} -> ".html"
      [] name \in {"main.lis"} -> ".lis"
      [] name \in {"logo.svg"} -> ".svg"
      [] name \in {"sitemap.xml"} -> ".xml"
      [] name \in {"default.css", "dark.css"} -> ".css"
      [] OTHER -> ""

Stem(name) ==
    CASE name = "diagram.drawio" -> "diagram"
      [] name = "pic.png" -> "pic"
      [] name = "small.png" -> "small"
      [] name = "photo.png" -> "photo"
      [] OTHER -> name

cfgdir == <<"cfg">>
outdir == <<"out">>


-----------------------------------------------------------------------------
(* The file system.  st = [dirs, files, ok]; ok = FALSE once a call has    *)
(* raised an exception nothing catches, after which no call has an effect. *)

Fail(st) == [st EXCEPT !.ok = FALSE]

Exists(st, p) == p \in st.dirs \/ p \in DOMAIN st.files

FilesIn(st, d) == {Last(p) : p \in {q \in DOMAIN st.files : Parent(q) = d}}
DirsIn(st, d) == {Last(p) : p \in {q \in st.dirs : q # <<>> /\ Parent(q) = d}}

Ancestors(p) == {SubSeq(p, 1, k) : k \in 0..Len(p)}

\* os.mkdir(p): the parent must exist, p must not
mkdir(st, p) ==
    IF ~st.ok THEN st
    ELSE IF Exists(st, p) \/ Parent(p) \notin st.dirs THEN Fail(st)
    ELSE [st EXCEPT !.dirs = @ \cup {p}]

\* os.makedirs(p, exist_ok): creates every missing ancestor
makedirs(st, p, exist_ok) ==
    IF ~st.ok THEN st
    ELSE IF \E a \in Ancestors(p) : a \in DOMAIN st.files THEN Fail(st)
    ELSE IF p \in st.dirs /\ ~exist_ok THEN Fail(st)
    ELSE [st EXCEPT !.dirs = @ \cup Ancestors(p)]

\* open(p, "w").write(c)
write(st, p, c) ==
    IF ~st.ok THEN st
    ELSE IF p \in st.dirs \/ Parent(p) \notin st.dirs THEN Fail(st)
    ELSE [st EXCEPT !.files = (p :> c) @@ @]

\* shutil.copy / shutil.copy2
copy(st, src, dst) ==
    IF ~st.ok THEN st
    ELSE IF src \notin DOMAIN st.files THEN Fail(st)
    ELSE write(st, dst, st.files[src])

\* os.remove(p)
remove(st, p) ==
    IF ~st.ok THEN st
    ELSE IF p \notin DOMAIN st.files THEN Fail(st)
    ELSE [st EXCEPT !.files = [q \in DOMAIN @ \ {p} |-> @[q]]]

\* shutil.rmtree(p)
rmtree(st, p) ==
    IF ~st.ok THEN st
    ELSE IF p \notin st.dirs THEN Fail(st)
    ELSE [st EXCEPT !.dirs = {d \in @ : ~IsPrefix(p, d)},
                    !.files = [q \in {r \in DOMAIN @ : ~IsPrefix(p, r)} |-> @[q]]]

Rebase(p, src, dst) == dst \o SubSeq(p, Len(src) + 1, Len(p))

\* shutil.copytree(src, dst): dst must not exist
copytree(st, src, dst) ==
    IF ~st.ok THEN st
    ELSE IF src \notin st.dirs \/ Exists(st, dst) THEN Fail(st)
    ELSE LET ds == {d \in st.dirs : IsPrefix(src, d)}
             fl == {f \in DOMAIN st.files : IsPrefix(src, f)}
             new == [q \in {Rebase(f, src, dst) : f \in fl} |->
                        st.files[Rebase(q, dst, src)]]
         IN  [st EXCEPT !.dirs = @ \cup Ancestors(dst)
                                    \cup {Rebase(d, src, dst) : d \in ds},
                        !.files = new @@ @]

\* os.walk(top): top-down, a directory before its subdirectories; each entry
\* is (dirpath, dirnames, filenames).  A top that is no directory yields nothing.
RECURSIVE walk(_, _)
RECURSIVE walkeach(_, _, _)
walk(st, top) ==
    LET d == Resolve(top) IN
    IF d \notin st.dirs THEN <<>>
    ELSE <<[dirpath |-> top, dirnames |-> DirsIn(st, d), filenames |-> FilesIn(st, d)]>>
         \o walkeach(st, top, SetToSeq(DirsIn(st, d)))
walkeach(st, top, names) ==
    IF names = <<>> THEN <<>>
    ELSE walk(st, Join(top, <<Head(names)>>)) \o walkeach(st, top, Tail(names))

-----------------------------------------------------------------------------
(* dict: insertion-ordered, a sequence of [path, page]                     *)

Keys(d) == {d[i].path : i \in 1..Len(d)}
Get(d, k) == d[CHOOSE i \in 1..Len(d) : d[i].path = k].page
DictSet(d, k, v) ==
    IF k \in Keys(d)
    THEN [i \in 1..Len(d) |-> IF d[i].path = k THEN [path |-> k, page |-> v] ELSE d[i]]
    ELSE Append(d, [path |-> k, page |-> v])

-----------------------------------------------------------------------------
(* findpages                                                               *)

PagesRoot == Join(cfgdir, <<"pages">>)

\* json.loads(pagejsonraw) succeeds
LoadsJson(raw) == raw.kind \in {"manifest", "badschema"}
\* Page(**pagejson) validates
ValidPage(raw) == raw.kind = "manifest"

\* the key findpages gives the directory os.walk reports as dirpath
pagepathOf(dirpath) == Replace(dirpath, PagesRoot, <<>>)

\* ".ignore" in pagedir[2], with the test made on pagedir[1] instead
HasIgnore_dirnames(pagedir) == ".ignore" \in pagedir.dirnames

\* ".ignore" in pagedir[2]
HasIgnore(pagedir) == ".ignore" \in pagedir.filenames

\* "page.json" in pagedir[2]
HasManifest(pagedir) == "page.json" \in pagedir.filenames

RECURSIVE findloop(_, _, _)
findloop(st, w, acc) ==
    IF w = <<>> THEN acc
    ELSE LET pagedir == Head(w)
             pagepath == pagepathOf(pagedir.dirpath)
             raw == st.files[Resolve(Join(pagedir.dirpath, <<"page.json">>))]
         IN  IF HasIgnore(pagedir) THEN findloop(st, Tail(w), acc)
             ELSE IF ~HasManifest(pagedir) THEN findloop(st, Tail(w), acc)
             ELSE IF ~(LoadsJson(raw) /\ ValidPage(raw)) THEN findloop(st, Tail(w), acc)
             ELSE findloop(st, Tail(w), DictSet(acc, pagepath, raw.page))

findpages(st) == findloop(st, walk(st, PagesRoot), <<>>)

-----------------------------------------------------------------------------
(* Markdown with BoxedSectionExtension.  The source is a sequence of lines;*)
(* the block parser is handed text.split("\n\n"), so a block is a run of   *)
(* lines between blank lines.                                              *)

OpenNote == ":::note title=\"X\""
OpenBox == ":::box boxed=1"
MdLines == {OpenNote, OpenBox, "body", ":::", ""}

\* the blocks of a source: maximal runs of non-blank lines
RECURSIVE Blocks(_, _)
Blocks(lines, cur) ==
    IF lines = <<>> THEN (IF cur = <<>> THEN <<>> ELSE <<cur>>)
    ELSE IF Head(lines) = ""
         THEN (IF cur = <<>> THEN <<>> ELSE <<cur>>) \o Blocks(Tail(lines), <<>>)
         ELSE Blocks(Tail(lines), Append(cur, Head(lines)))

\* RE_FENCE_START = ^:::(\w+)(.*)$ applied to one line; group(1) and group(2)
StartGroups(line) ==
    CASE line = OpenNote -> [matched |-> TRUE, tag |-> "note", attr |-> " title=\"X\""]
      [] line = OpenBox -> [matched |-> TRUE, tag |-> "box", attr |-> " boxed=1"]
      [] OTHER -> [matched |-> FALSE, tag |-> "", attr |-> ""]

\* RE_FENCE_START.match(block.strip()): "." stops at a newline and "$" holds
\* only at the end of the text, so a block of several lines never matches
RE_FENCE_START(block) ==
    IF Len(block) = 1 THEN StartGroups(block[1])
    ELSE [matched |-> FALSE, tag |-> "", attr |-> ""]

\* RE_FENCE_END = ^:::\s*$ applied to block.strip()
RE_FENCE_END(block) == block = <<":::">>

\* parse_attrs(attr_string): shlex tokens of the form key=value
parse_attrs(attr_string) ==
    CASE attr_string = " title=\"X\"" -> [k \in {"title"} |-> "X"]
      [] attr_string = " boxed=1" -> [k \in {"boxed"} |-> "1"]
      [] OTHER -> [k \in {} |-> ""]

\* attrs.pop(key, None)
Pop(attrs, key) == [k \in DOMAIN attrs \ {key} |-> attrs[k]]

\* BoxedSectionProcessor.test
test(block) == RE_FENCE_START(block).matched

\* the blocks run takes as content: those before the first closing fence
RECURSIVE content_lines(_)
content_lines(blocks) ==
    IF blocks = <<>> \/ RE_FENCE_END(Head(blocks)) THEN <<>>
    ELSE <<Head(blocks)>> \o content_lines(Tail(blocks))

\* the blocks left once run has popped the content and the closing fence
RECURSIVE after_fence(_)
after_fence(blocks) ==
    IF blocks = <<>> THEN <<>>
    ELSE IF RE_FENCE_END(Head(blocks)) THEN Tail(blocks)
    ELSE after_fence(Tail(blocks))

Heading(text) == [tag |-> "h3", class |-> "", attrs |-> <<>>, text |-> <<text>>,
                  children |-> <<>>]
Paragraph(block) == [tag |-> "p", class |-> "", attrs |-> <<>>, text |-> block,
                     children |-> <<>>]

\* BlockParser.parseBlocks with BoxedSectionProcessor first (priority 175) and
\* the paragraph processor last; BoxedSectionProcessor.run builds the div
RECURSIVE parseBlocks(_)
parseBlocks(blocks) ==
    IF blocks = <<>> THEN <<>>
    ELSE IF test(Head(blocks))
    THEN LET m == RE_FENCE_START(Head(blocks))
             attrs == parse_attrs(m.attr)
             boxed == "boxed" \in DOMAIN attrs /\ attrs["boxed"] # ""
             title == IF "title" \in DOMAIN attrs THEN attrs["title"] ELSE ""
             rest == Pop(Pop(attrs, "boxed"), "title")
             div == [tag |-> "div",
                     class |-> IF boxed THEN "section boxed" ELSE "section",
                     attrs |-> SetToSeq({<<k, rest[k]>> : k \in DOMAIN rest}),
                     text |-> <<>>,
                     children |->
                        (IF title # "" THEN <<Heading(title)>> ELSE <<>>)
                        \o parseBlocks(content_lines(Tail(blocks)))]
         IN  <<div>> \o parseBlocks(after_fence(Tail(blocks)))
    ELSE <<Paragraph(Head(blocks))>> \o parseBlocks(Tail(blocks))

\* markdown.markdown(content, extensions = [BoxedSectionExtension(), ...])
markdown(content) == parseBlocks(Blocks(content, <<>>))

-----------------------------------------------------------------------------
(* buildpages                                                              *)

TemplatesDir == Resolve(Join(cfgdir, <<"templates">>))

\* os.listdir(os.path.join(cfgdir, "templates"))
templatedirs(st) == DirsIn(st, TemplatesDir) \cup FilesIn(st, TemplatesDir)

\* Environment(FileSystemLoader(<templates>/<theme>/<sub>)).list_templates()
list_templates(st, theme, sub) ==
    {<<Last(f)>> : f \in {g \in DOMAIN st.files : Parent(g) = TemplatesDir \o <<theme, sub>>}}

\* what buildpages writes to index.html for a page
Html(page, content) ==
    [kind |-> "html", page |-> page,
     body |-> markdown(IF content.kind = "md" THEN content.doc ELSE <<>>)]

\* the directory buildpages writes a page's index.html into
OutputDir(pagepath) == Resolve(Join(outdir, lstrip(pagepath)))
IndexFile(pagepath) == Resolve(Join(Join(outdir, lstrip(pagepath)), <<"index.html">>))
ContentFile(pagepath, page) ==
    Resolve(Join(Join(PagesRoot, lstrip(pagepath)), page.content))

\* the checks of the loop body that make buildpages skip a page
Renders(st, pagepath, page) ==
    /\ page.theme \in templatedirs(st)
    /\ page.htmloverride \in list_templates(st, page.theme, "html")
    /\ Exists(st, ContentFile(pagepath, page))

\* os.mkdir(<outdir>/<pagepath>) without the os.path.exists test before it
ensuredir_always(st, target) == mkdir(st, target)

\* os.mkdir(<outdir>/<pagepath>) when it does not exist yet
ensuredir(st, target) == IF Exists(st, target) THEN st ELSE mkdir(st, target)

RECURSIVE buildloop(_, _)
buildloop(st, items) ==
    IF items = <<>> \/ ~st.ok THEN st
    ELSE LET pagepath == Head(items).path
             page == Head(items).page
             contentpath == ContentFile(pagepath, page)
         IN  IF ~Renders(st, pagepath, page) THEN buildloop(st, Tail(items))
             ELSE IF contentpath \in st.dirs THEN Fail(st)
             ELSE buildloop(
                    write(ensuredir(st, OutputDir(pagepath)), IndexFile(pagepath),
                          Html(page, st.files[contentpath])),
                    Tail(items))

buildpages(st, pgs) ==
    IF TemplatesDir \notin st.dirs THEN Fail(st) ELSE buildloop(st, pgs)

-----------------------------------------------------------------------------
(* gatherstatic                                                            *)

StaticPages == Join(outdir, <<"static", "/", "pages">>)

\* the test of gatherstatic that leaves a file out of the copy
Excluded(file, page) == file = "page.json" \/ <<file>> = page.content

RECURSIVE copyfiles(_, _, _, _, _, _)
copyfiles(st, root, files, source_dir, dest_dir, page) ==
    IF files = <<>> \/ ~st.ok THEN st
    ELSE LET file == Head(files)
             source_file == Resolve(Join(root, <<file>>))
             rel_path == SubSeq(source_file, Len(Resolve(source_dir)) + 1, Len(source_file))
             dest_file == Resolve(dest_dir) \o rel_path
             next == IF Excluded(file, page) THEN st
                     ELSE IF Suffix(file) \notin DOMAIN siteconfig.staticexts THEN st
                     ELSE copy(makedirs(st, Parent(dest_file), TRUE), source_file, dest_file)
         IN  copyfiles(next, root, Tail(files), source_dir, dest_dir, page)

RECURSIVE copywalk(_, _, _, _, _)
copywalk(st, w, source_dir, dest_dir, page) ==
    IF w = <<>> \/ ~st.ok THEN st
    ELSE copywalk(copyfiles(st, Head(w).dirpath, SetToSeq(Head(w).filenames),
                            source_dir, dest_dir, page),
                  Tail(w), source_dir, dest_dir, page)

RECURSIVE gatherloop(_, _)
gatherloop(st, items) ==
    IF items = <<>> \/ ~st.ok THEN st
    ELSE LET pagepath == Head(items).path
             source_dir == Join(PagesRoot, lstrip(pagepath))
             dest_dir == Join(StaticPages, lstrip(pagepath))
             s1 == IF Exists(st, Resolve(dest_dir)) THEN st
                   ELSE makedirs(st, Resolve(dest_dir), TRUE)
         IN  gatherloop(copywalk(s1, walk(s1, source_dir), source_dir, dest_dir,
                                 Head(items).page),
                        Tail(items))

gatherstatic(st, pgs) == gatherloop(st, pgs)

-----------------------------------------------------------------------------
(* thumbnails                                                              *)

\* the names of the loop "for files in os.listdir()" that get past both
\* "continue" tests: registered extension of class image
ReachesOpen(name) ==
    /\ Suffix(name) \in DOMAIN siteconfig.staticexts
    /\ siteconfig.staticexts[Suffix(name)] = "image"

\* os.listdir() lists the working directory.  For a name that reaches
\* Image.open, the argument os.path.join(dirs[0], f) is evaluated first and
\* dirs is bound nowhere: NameError, which nothing catches.
thumbnails(st, pgs) ==
    IF pgs # <<>> /\ \E name \in DirsIn(st, <<>>) \cup FilesIn(st, <<>>) : ReachesOpen(name)
    THEN Fail(st)
    ELSE st

-----------------------------------------------------------------------------
(* drawio                                                                  *)

ExportName(f, fmt) ==
    CASE Stem(f) = "diagram" /\ fmt = "png" -> "diagram.png"
      [] OTHER -> "export"

RECURSIVE convertfiles(_, _, _)
convertfiles(st, dirpath, files) ==
    IF files = <<>> \/ ~st.ok THEN st
    ELSE LET f == Head(files)
             imgpath == Resolve(Join(dirpath, <<f>>))
             next == IF Suffix(f) \notin DOMAIN siteconfig.staticexts THEN Fail(st)
                     ELSE IF siteconfig.staticexts[Suffix(f)] # "drawio" THEN st
                     ELSE IF converter # 0 THEN st
                     ELSE write(st, Resolve(Join(dirpath,
                                        <<ExportName(f, siteconfig.drawiofmt)>>)),
                                [kind |-> "export", of |-> st.files[imgpath],
                                 scale |-> siteconfig.drawioscale])
         IN  convertfiles(next, dirpath, Tail(files))

RECURSIVE convertwalk(_, _)
convertwalk(st, staticdirs) ==
    IF staticdirs = <<>> \/ ~st.ok THEN st
    ELSE convertwalk(convertfiles(st, Head(staticdirs).dirpath,
                                  SetToSeq(Head(staticdirs).filenames)),
                     Tail(staticdirs))

drawio(st) == convertwalk(st, walk(st, StaticPages))

-----------------------------------------------------------------------------
(* buildcss                                                                *)

StylesDir == Resolve(Join(outdir, <<"static", "/", "styles">>))

CssName(name) ==
    CASE name = "default" -> "default.css"
      [] name = "dark" -> "dark.css"
      [] OTHER -> "theme.css"

RECURSIVE cssloop(_, _)
cssloop(st, themes) ==
    IF themes = <<>> \/ ~st.ok THEN st
    ELSE LET name == Head(themes).name
             theme == Head(themes).theme
         IN  IF theme \notin templatedirs(st) THEN Fail(st)
             ELSE IF <<"main.lis">> \notin list_templates(st, theme, "css") THEN Fail(st)
             ELSE cssloop(write(st, StylesDir \o <<CssName(name)>>,
                                [kind |-> "css", theme |-> theme,
                                 themes |-> siteconfig.themes]),
                          Tail(themes))

buildcss(st) ==
    IF ~Exists(st, TemplatesDir) THEN Fail(st)
    ELSE cssloop(makedirs(st, StylesDir, FALSE), siteconfig.themes)

-----------------------------------------------------------------------------
(* sitemap                                                                 *)

Loc(pagepath) == <<"https://", siteconfig.sitedomain>> \o pagepath

sitemap_urls(pgs) == [i \in 1..Len(pgs) |-> Loc(pgs[i].path)]

SitemapFile == Resolve(Join(outdir, <<"sitemap.xml">>))

sitemap(st, pgs) ==
    write(st, SitemapFile, [kind |-> "sitemap", urls |-> sitemap_urls(pgs)])

-----------------------------------------------------------------------------
(* The inputs: a configuration directory cfg, an output directory out, and  *)
(* the working directory they lie in.                                      *)

Proot == Resolve(PagesRoot)
Pa == Proot \o <<"a">>
Pb == Pa \o <<"b">>
PageDirs == {Proot, Pa, Pb}

PageOf(theme, tmpl, content) ==
    [kind |-> "manifest",
     page |-> [theme |-> theme, htmloverride |-> tmpl, content |-> content]]

\* page.json contents: none, not JSON, JSON that is no Page, and Pages
NoManifest == [kind |-> "none"]
PlainPage == PageOf("default", <<"main.lis">>, <<"index.md">>)
BadTheme == PageOf("nope", <<"main.lis">>, <<"index.md">>)
BadTemplate == PageOf("default", <<"other.lis">>, <<"index.md">>)
NoContent == PageOf("default", <<"main.lis">>, <<"gone.md">>)
SubContent == PageOf("default", <<"main.lis">>, <<"b", "/", "index.md">>)

Manifests(d) ==
    {NoManifest, [kind |-> "badjson"], [kind |-> "badschema"],
     PlainPage, BadTheme, BadTemplate, NoContent}
    \cup (IF d = Pa THEN {SubContent} ELSE {})

Exts == (".png" :> "image") @@ (".drawio" :> "drawio") @@ (".svg" :> "other")
ExtsMd == Exts @@ (".md" :> "other")

DefaultConfig ==
    [sitedomain |-> "example.com", drawio |-> TRUE, drawiofmt |-> "png",
     drawioscale |-> 1, thumbnails |-> TRUE, thumbsize |-> 3, sitemap |-> TRUE,
     staticexts |-> Exts,
     themes |-> <<[name |-> "default", theme |-> "default"],
                  [name |-> "dark", theme |-> "default"]>>]

DefaultEnv ==
    [config |-> DefaultConfig,
     static |-> {<<"logo.svg">>},    \* files of cfg/static; {} when it is missing
     robots |-> TRUE,                \* cfg/robots.txt exists
     cwd |-> {},                     \* files of the working directory
     converter |-> 0]

Scenarios ==
    {DefaultEnv,
     [DefaultEnv EXCEPT !.config.staticexts = ExtsMd],
     [DefaultEnv EXCEPT !.cwd = {"photo.png"}],
     [DefaultEnv EXCEPT !.cwd = {"photo.png"}, !.config.thumbnails = FALSE],
     [DefaultEnv EXCEPT !.config.sitemap = FALSE, !.config.drawio = FALSE,
                        !.robots = FALSE],
     [DefaultEnv EXCEPT !.static = {}],
     [DefaultEnv EXCEPT !.static = {<<"styles", "old.css">>}],
     [DefaultEnv EXCEPT !.static = {<<"pages", "README">>}],
     [DefaultEnv EXCEPT !.config.themes = <<[name |-> "default", theme |-> "gone"]>>],
     [DefaultEnv EXCEPT !.converter = 1]}

FixedDirs ==
    {<<>>, cfgdir, outdir, Proot, Pa, Pb, TemplatesDir,
     TemplatesDir \o <<"default">>,
     TemplatesDir \o <<"default", "html">>,
     TemplatesDir \o <<"default", "css">>}

FixedFiles ==
    (Proot \o <<"index.md">> :> [kind |-> "md", doc |-> <<"body">>])
    @@ (Pa \o <<"index.md">> :>
            [kind |-> "md", doc |-> <<OpenNote, "", "body", "", ":::">>])
    @@ (Pb \o <<"index.md">> :> [kind |-> "md", doc |-> <<OpenNote, "body", ":::">>])
    @@ (Pa \o <<"pic.png">> :> [kind |-> "image", size |-> <<3, 4>>])
    @@ (Pb \o <<"small.png">> :> [kind |-> "image", size |-> <<2, 2>>])
    @@ (Pa \o <<"diagram.drawio">> :> [kind |-> "drawio"])
    @@ (Pb \o <<"note.txt">> :> [kind |-> "data", id |-> "note"])
    @@ (TemplatesDir \o <<"default", "html", "main.lis">> :> [kind |-> "template", id |-> "html"])
    @@ (TemplatesDir \o <<"default", "css", "main.lis">> :> [kind |-> "template", id |-> "css"])

StaticRoot == Resolve(Join(cfgdir, <<"static">>))
RobotsIn == Resolve(Join(cfgdir, <<"robots.txt">>))
RobotsOut == Resolve(Join(outdir, <<"robots.txt">>))
StaticOut == Resolve(Join(outdir, <<"static">>))

InputFs(sc, ign, man) ==
    LET mdirs == {d \in PageDirs : man[d].kind # "none"}
        sfiles == {StaticRoot \o f : f \in sc.static}
    IN  [dirs |-> FixedDirs
                  \cup UNION {Ancestors(Parent(f)) : f \in sfiles},
         files |->
            FixedFiles
            @@ [f \in {d \o <<"page.json">> : d \in mdirs} |-> man[Parent(f)]]
            @@ [f \in {d \o <<".ignore">> : d \in ign} |-> [kind |-> "marker"]]
            @@ [f \in sfiles |-> [kind |-> "data", id |-> Last(f)]]
            @@ [f \in {RobotsIn : x \in {y \in {1} : sc.robots}} |-> [kind |-> "data", id |-> "robots"]]
            @@ [f \in {<<n>> : n \in sc.cwd} |-> [kind |-> "image", size |-> <<5, 5>>]]]

NoHtml == [done |-> FALSE, tree |-> <<>>]

\* every manifest choice under the default configuration, with and without
\* ".md" registered; three manifest choices under the other scenarios
WideScenarios == {DefaultEnv, [DefaultEnv EXCEPT !.config.staticexts = ExtsMd]}
NarrowManifests == {NoManifest, PlainPage, BadTheme}

Init ==
    /\ \E sc \in Scenarios, ign \in SUBSET PageDirs :
         \E man \in [PageDirs -> UNION {Manifests(d) : d \in PageDirs}] :
            /\ \A d \in PageDirs : man[d] \in Manifests(d)
            /\ sc \in WideScenarios \/ \A d \in PageDirs : man[d] \in NarrowManifests
            /\ fs = InputFs(sc, ign, man)
            /\ siteconfig = sc.config
            /\ converter = sc.converter
    /\ pages = <<>>
    /\ pc = "main"
    /\ exitcode = -1
    /\ run = 1
    /\ prev = <<>>
    /\ doc = <<>>
    /\ html = NoHtml

-----------------------------------------------------------------------------
(* __main__, one action per stage.  An exception nothing catches, and      *)
(* exit(1), end the process with status 1.                                 *)

Running(st) == [dirs |-> st.dirs, files |-> st.files, ok |-> TRUE]

Advance(st, nextpc) ==
    /\ fs' = [dirs |-> st.dirs, files |-> st.files]
    /\ IF st.ok
       THEN pc' = nextpc /\ exitcode' = (IF nextpc = "exit" THEN 0 ELSE exitcode)
       ELSE pc' = "exit" /\ exitcode' = 1

\* lines 450-466: top-level static copy and robots.txt
copystatic(st) ==
    LET s1 == IF Exists(st, StaticOut) THEN rmtree(st, StaticOut) ELSE st
        s2 == IF Exists(s1, StaticRoot) THEN copytree(s1, StaticRoot, StaticOut)
              ELSE Fail(s1)
        s3 == IF Exists(s2, RobotsOut) THEN remove(s2, RobotsOut) ELSE s2
    IN  IF Exists(s3, RobotsIn) THEN copy(s3, RobotsIn, RobotsOut) ELSE s3

Main ==
    /\ pc = "main"
    /\ Advance(copystatic(Running(fs)), "findpages")
    /\ UNCHANGED <<siteconfig, converter, pages, run, prev, doc, html>>

FindPages ==
    /\ pc = "findpages"
    /\ pages' = findpages(Running(fs))
    /\ pc' = "buildpages"
    /\ UNCHANGED <<fs, siteconfig, converter, exitcode, run, prev, doc, html>>

\* buildpages that also drops from the dict the pages it did not render
BuildPages_prune ==
    /\ pc = "buildpages"
    /\ Advance(buildpages(Running(fs), pages), "gatherstatic")
    /\ pages' = SelectSeq(pages, LAMBDA e : Renders(fs, e.path, e.page))
    /\ UNCHANGED <<siteconfig, converter, run, prev, doc, html>>

BuildPages ==
    /\ pc = "buildpages"
    /\ Advance(buildpages(Running(fs), pages), "gatherstatic")
    /\ UNCHANGED <<siteconfig, converter, pages, run, prev, doc, html>>

GatherStatic ==
    /\ pc = "gatherstatic"
    /\ Advance(gatherstatic(Running(fs), pages), "thumbnails")
    /\ UNCHANGED <<siteconfig, converter, pages, run, prev, doc, html>>

Thumbnails ==
    /\ pc = "thumbnails"
    /\ Advance(IF siteconfig.thumbnails THEN thumbnails(Running(fs), pages)
               ELSE Running(fs), "drawio")
    /\ UNCHANGED <<siteconfig, converter, pages, run, prev, doc, html>>

Drawio ==
    /\ pc = "drawio"
    /\ Advance(IF siteconfig.drawio THEN drawio(Running(fs)) ELSE Running(fs),
               "buildcss")
    /\ UNCHANGED <<siteconfig, converter, pages, run, prev, doc, html>>

BuildCss ==
    /\ pc = "buildcss"
    /\ Advance(buildcss(Running(fs)), "sitemap")
    /\ UNCHANGED <<siteconfig, converter, pages, run, prev, doc, html>>

Sitemap ==
    /\ pc = "sitemap"
    /\ Advance(IF siteconfig.sitemap THEN sitemap(Running(fs), pages)
               ELSE Running(fs), "exit")
    /\ UNCHANGED <<siteconfig, converter, pages, run, prev, doc, html>>

\* build.py is started again on the same configuration and output directories
Rerun ==
    /\ pc = "exit"
    /\ run < MaxRuns
    /\ prev' = Append(prev, [fs |-> fs, exitcode |-> exitcode, pages |-> pages])
    /\ run' = run + 1
    /\ pc' = "main"
    /\ exitcode' = -1
    /\ pages' = <<>>
    /\ UNCHANGED <<fs, siteconfig, converter, doc, html>>

Next ==
    \/ Main
    \/ FindPages
    \/ BuildPages
    \/ GatherStatic
    \/ Thumbnails
    \/ Drawio
    \/ BuildCss
    \/ Sitemap
    \/ Rerun

Spec == Init /\ [][Next]_vars

-----------------------------------------------------------------------------
(* Rendering one Markdown source.                                          *)

RECURSIVE SeqsUpTo(_, _)
SeqsUpTo(S, n) ==
    IF n = 0 THEN {<<>>}
    ELSE LET shorter == SeqsUpTo(S, n - 1)
         IN  shorter \cup {Append(q, x) : q \in shorter, x \in S}

MdInit ==
    /\ doc \in SeqsUpTo(MdLines, MaxDocLen)
    /\ html = NoHtml
    /\ fs = InputFs(DefaultEnv, {}, [d \in PageDirs |-> PlainPage])
    /\ siteconfig = DefaultConfig
    /\ converter = 0
    /\ pages = <<>>
    /\ pc = "markdown"
    /\ exitcode = -1
    /\ run = 1
    /\ prev = <<>>

Render ==
    /\ pc = "markdown"
    /\ ~html.done
    /\ html' = [done |-> TRUE, tree |-> markdown(doc)]
    /\ UNCHANGED <<fs, siteconfig, converter, pages, pc, exitcode, run, prev, doc>>

MdNext == Render

SpecMd == MdInit /\ [][MdNext]_vars

-----------------------------------------------------------------------------
(* Properties                                                              *)

RECURSIVE SlashPath(_)
SlashPath(comps) ==
    IF comps = <<>> THEN <<>> ELSE <<"/", Head(comps)>> \o SlashPath(Tail(comps))

\* a content directory's path relative to the content root
RelDir(d) == SubSeq(d, Len(Proot) + 1, Len(d))
\* ... as "/a/b", the content root as ""
DirKey(d) == SlashPath(RelDir(d))
\* ... as a URL path ending in "/": "/a/b/", the content root as "/"
UrlPath(d) == SlashPath(RelDir(d)) \o <<"/">>

ManifestAt(d) ==
    IF d \o <<"page.json">> \in DOMAIN fs.files THEN fs.files[d \o <<"page.json">>]
    ELSE NoManifest
IgnoredDir(d) == d \o <<".ignore">> \in DOMAIN fs.files
ValidDir(d) == ManifestAt(d).kind = "manifest"

Count(seq, x) == Cardinality({i \in 1..Len(seq) : seq[i] = x})
PageKeys == [i \in 1..Len(pages) |-> pages[i].path]

\* C1: every directory with a valid manifest and no ignore marker has exactly
\* one entry, keyed by its path relative to the content root, and every key of
\* the mapping findpages returns ends in "/" (the content root is keyed "/").
C1_KeysAreUrlPaths ==
    pc = "buildpages" =>
        /\ \A d \in PageDirs :
              ValidDir(d) /\ ~IgnoredDir(d) => Count(PageKeys, UrlPath(d)) = 1
        /\ \A i \in 1..Len(pages) :
              pages[i].path # <<>> /\ Last(pages[i].path) = "/"

HasBadTheme(i) == pages[i].page.theme \notin templatedirs(fs)

\* C3: when exactly one discovered page names a theme that does not exist and
\* every other discovered page resolves, the build ends with exit code 0, that
\* page has no index.html and every other discovered page has one.
C3_OnlyBadThemeDropped ==
    ( /\ pc = "exit"
      /\ Cardinality({i \in 1..Len(pages) : HasBadTheme(i)}) = 1
      /\ \A i \in 1..Len(pages) :
            ~HasBadTheme(i) => Renders(fs, pages[i].path, pages[i].page) )
    =>
    ( /\ exitcode = 0
      /\ \A i \in 1..Len(pages) :
            (IndexFile(pages[i].path) \in DOMAIN fs.files) <=> ~HasBadTheme(i) )

\* C4: with the sitemap enabled, sitemap.xml has exactly one loc per page whose
\* index.html was written and none for a page buildpages skipped; each loc is
\* "https://" + sitedomain + the page's path.
C4_SitemapListsRenderedPages ==
    (pc = "exit" /\ exitcode = 0 /\ siteconfig.sitemap) =>
        /\ SitemapFile \in DOMAIN fs.files
        /\ LET urls == fs.files[SitemapFile].urls
           IN  /\ \A i \in 1..Len(pages) :
                     Count(urls, Loc(pages[i].path)) =
                        (IF IndexFile(pages[i].path) \in DOMAIN fs.files THEN 1 ELSE 0)
               /\ \A j \in 1..Len(urls) :
                     \E i \in 1..Len(pages) : urls[j] = Loc(pages[i].path)

RECURSIVE HasElement(_, _)
HasElement(tree, e) ==
    \E i \in 1..Len(tree) : tree[i] = e \/ HasElement(tree[i].children, e)

NoteSection ==
    [tag |-> "div", class |-> "section", attrs |-> <<>>, text |-> <<>>,
     children |-> <<Heading("X"), Paragraph(<<"body">>)>>]

HasFencedLines(d) ==
    \E k \in 1..(Len(d) - 2) : SubSeq(d, k, k + 2) = <<OpenNote, "body", ":::">>

\* C5: a source holding the three consecutive lines :::note title="X", body,
\* ::: renders to a div whose only children are an h3 with text X and the
\* rendered body, whatever precedes or follows the three lines.
C5_FencedLinesRecognized ==
    (html.done /\ HasFencedLines(doc)) => HasElement(html.tree, NoteSection)

RoundDiv(n, d) ==
    LET q == n \div d
        r == n % d
    IN  IF 2 * r < d THEN q
        ELSE IF 2 * r > d THEN q + 1
        ELSE IF q % 2 = 0 THEN q ELSE q + 1

ThumbName(name) ==
    CASE name = "pic.png" -> "pic_thumb.png"
      [] name = "small.png" -> "small_thumb.png"
      [] OTHER -> "thumb"

CopiedImages ==
    {f \in DOMAIN fs.files :
        /\ IsPrefix(Resolve(StaticPages), f)
        /\ fs.files[f].kind = "image"
        /\ ReachesOpen(Last(f))}

\* C6: with thumbnailing enabled, every copied static image of height H and
\* width W has a sibling <stem>_thumb<ext> of height T and width round(W*T/H)
\* when H > T, and none when H <= T.
C6_ThumbnailDimensions ==
    (pc = "drawio" /\ siteconfig.thumbnails) =>
        \A f \in CopiedImages :
            LET W == fs.files[f].size[1]
                H == fs.files[f].size[2]
                T == siteconfig.thumbsize
                thumb == Parent(f) \o <<ThumbName(Last(f))>>
            IN  IF H > T
                THEN /\ thumb \in DOMAIN fs.files
                     /\ fs.files[thumb].kind = "image"
                     /\ fs.files[thumb].size = <<RoundDiv(W * T, H), T>>
                ELSE thumb \notin DOMAIN fs.files

StaticDest(pagepath, source_file) ==
    Resolve(Join(StaticPages, lstrip(pagepath)))
    \o SubSeq(source_file, Len(Resolve(Join(PagesRoot, lstrip(pagepath)))) + 1,
              Len(source_file))

\* C7: after gatherstatic no page's declared content file lies in that page's
\* static output, also when the content path names a file in a subdirectory.
C7_ContentFileNotCopied ==
    pc = "thumbnails" =>
        \A i \in 1..Len(pages) :
            StaticDest(pages[i].path, ContentFile(pages[i].path, pages[i].page))
                \notin DOMAIN fs.files

\* C8: a second run on unchanged inputs and the same output directory ends
\* with the exit status of the run before it, so it completes when that run
\* completed, and leaves the same tree.
C8_SecondRunIdentical ==
    (pc = "exit" /\ run > 1) =>
        /\ exitcode = prev[run - 1].exitcode
        /\ fs = prev[run - 1].fs

C8_Witness ==
    /\ pc = "exit" /\ run = 2 /\ exitcode = 0
    /\ prev[1].exitcode = 0
    /\ Len(pages) = 3
    /\ \E f \in DOMAIN fs.files : Last(f) = "diagram.png"
    /\ SitemapFile \in DOMAIN fs.files

\* C9: once buildpages has run, every discovered page whose theme, template
\* and content file resolve has its index.html, also below a directory that
\* discovery skipped or that did not render.
C9_ResolvedPagesWritten ==
    pc \in {"gatherstatic", "thumbnails", "drawio", "buildcss", "sitemap", "exit"} =>
        \A i \in 1..Len(pages) :
            Renders(fs, pages[i].path, pages[i].page)
                => IndexFile(pages[i].path) \in DOMAIN fs.files

StageOrder ==
    {<<"main", "findpages">>, <<"findpages", "buildpages">>,
     <<"buildpages", "gatherstatic">>, <<"gatherstatic", "thumbnails">>,
     <<"thumbnails", "drawio">>, <<"drawio", "buildcss">>,
     <<"buildcss", "sitemap">>, <<"sitemap", "exit">>}
LaterStages == {"buildpages", "gatherstatic", "thumbnails", "drawio", "buildcss", "sitemap"}

=============================================================================
